---- MODULE Spec2Model ----
(***************************************************************************)
(* A model of the retrieval-and-stream pipeline of fda-search:             *)
(*   - stream_text            (backend/services/chat_protocol.py)          *)
(*   - truncate_messages_to_fit, count_message_tokens (same file)          *)
(*   - DocumentService._chunk_text (backend/services/document_service.py)  *)
(* Each component has its own specification (SpecStream, SpecTrunc,        *)
(* SpecChunk); the variables of the other components stay at their idle    *)
(* values.                                                                 *)
(***************************************************************************)
EXTENDS Integers, Sequences, FiniteSets, TLC

VARIABLES
    \* ---- stream_text: one generator object per request ----
    active,        \* the requests that are being streamed
    pc,            \* pc[s]: position of generator s
    protocol,      \* protocol[s]: the protocol argument, "data" or "text"
    sources,       \* sources[s]: the sources argument (a list of source keys)
    emitted,       \* emitted[s]: the events yielded so far, in order
    text_id,       \* text_id[s]: local text_id (0 before it is assigned)
    text_started,  \* text_started[s]: local text_started
    usage_data,    \* usage_data[s]: local usage_data
    src_i,         \* src_i[s]: index of the next source to emit
    cur,           \* cur[s]: choices of the current chunk not yet processed
    consumed,      \* consumed[s]: the provider frames delivered so far
    fault,         \* fault[s]: str(e) of the exception being handled
    uuid_next,     \* the next value uuid.uuid4() returns (fresh every call)
    \* ---- truncate_messages_to_fit ----
    t_pc,          \* "input" | "once" | "twice"
    messages,      \* the messages argument
    max_tokens,    \* the max_tokens argument
    reserved,      \* the reserved argument
    retok,         \* tokens gained or lost when a cut text is encoded again
    result,        \* truncate_messages_to_fit(messages, ...)
    result2,       \* truncate_messages_to_fit(result, ...)
    \* ---- DocumentService._chunk_text ----
    c_pc,          \* "input" | "done" | "raised"
    tokens,        \* self.tokenizer.encode(text)
    chunk_size,    \* the chunk_size argument
    overlap,       \* the overlap argument
    chunks,        \* the returned list
    \* ---- handle_chat_data ----
    h_pc,            \* position of the handler ("idle": no request)
    request,         \* the ChatRequest
    matches,         \* results["matches"] of the index, in arrival order
    similar_chunks,  \* local similar_chunks
    rag_sources,     \* local rag_sources
    openai_messages, \* local openai_messages
    retrieval        \* what became of the retrieval of this request

streamVars == <<active, pc, protocol, sources, emitted, text_id, text_started,
                usage_data, src_i, cur, consumed, fault, uuid_next>>
truncVars  == <<t_pc, messages, max_tokens, reserved, retok, result, result2>>
chunkVars  == <<c_pc, tokens, chunk_size, overlap, chunks>>
chatVars   == <<h_pc, request, matches, similar_chunks, rag_sources, openai_messages,
                retrieval>>
vars       == <<streamVars, truncVars, chunkVars, chatVars>>

-----------------------------------------------------------------------------
(* Bounds of the model *)

\* provider frames delivered to one stream
MaxFrames == 3
\* messages in the conversation handed to truncate_messages_to_fit
MaxMsgs == 3
\* tokens of the text handed to _chunk_text
MaxN == 8
\* largest chunk_size tried
MaxChunkSize == 4
\* largest overlap tried
MaxOverlap == 5
\* hits the vector store returns for one query
MaxHits == 4
\* provider frames delivered to the stream of a chat response
MaxChatFrames == 2

\* frames delivered to each of two requests streamed at the same time
MaxPairFrames == 2

-----------------------------------------------------------------------------
(* Generic helpers *)

Last(q) == q[Len(q)]

Max(a, b) == IF a >= b THEN a ELSE b

Min(a, b) == IF a <= b THEN a ELSE b

RECURSIVE SelectType(_, _)
\* the events of q whose type is in T, in order
SelectType(q, T) ==
    IF q = << >> THEN << >>
    ELSE IF Head(q).type \in T THEN <<Head(q)>> \o SelectType(Tail(q), T)
         ELSE SelectType(Tail(q), T)

CountType(q, t) == Len(SelectType(q, {t}))


-----------------------------------------------------------------------------
(* stream_text: the provider's frames and the events of the data stream     *)

Streams == {"r1", "r2"}

NoUsage == [some |-> FALSE, prompt_defined |-> FALSE,
            prompt_tokens |-> 0, completion_tokens |-> 0, total_tokens |-> 0]

\* chunk.usage of a frame that carries usage totals
UsageFull == [some |-> TRUE, prompt_defined |-> TRUE,
              prompt_tokens |-> 7, completion_tokens |-> 2, total_tokens |-> 9]

\* chunk.usage whose prompt_tokens is None
UsageNoPrompt == [some |-> TRUE, prompt_defined |-> FALSE,
                  prompt_tokens |-> 0, completion_tokens |-> 2, total_tokens |-> 2]

\* one element of chunk.choices: delta.content ("" when empty or absent) and
\* finish_reason ("" when None)
Choice(content, finish) == [content |-> content, finish_reason |-> finish]

Frame(choices, usage) == [choices |-> choices, usage |-> usage]

\* the frames the provider may deliver
Frames ==
    { Frame(<<Choice("a", "")>>, NoUsage),
      Frame(<<Choice("b", "")>>, NoUsage),
      Frame(<<Choice("", "")>>, NoUsage),
      Frame(<<Choice("", "stop")>>, NoUsage),
      Frame(<<Choice("a", ""), Choice("b", "")>>, NoUsage),
      Frame(<<Choice("", "stop"), Choice("a", "")>>, NoUsage),
      Frame(<< >>, UsageFull),
      Frame(<< >>, UsageNoPrompt) }

\* str(e) of the exceptions the provider raises
Faults == {"network fault", "timeout"}

\* the sources argument: None/[] or a list of citations
SourceLists == { << >>, <<"s1">>, <<"s1", "s2">>, <<"s2", "s1">> }

Event(type, id, text, usage) == [type |-> type, id |-> id, text |-> text, usage |-> usage]

SourceDocument(id, source) == Event("source-document", id, source, NoUsage)
TextStartEv(id)    == Event("text-start", id, "", NoUsage)
TextDeltaEv(id, d) == Event("text-delta", id, d, NoUsage)
TextEndEv(id)      == Event("text-end", id, "", NoUsage)
UsageEv(u)         == Event("data-usage", 0, "", u)
FinishEv           == Event("finish", 0, "", NoUsage)
ErrorEv(e)         == Event("error", 0, e, NoUsage)
DoneEv             == Event("[DONE]", 0, "", NoUsage)
RawEv(d)           == Event("raw", 0, d, NoUsage)

Yield(s, e) == emitted' = [emitted EXCEPT ![s] = Append(@, e)]

\* the position after one element of chunk.choices has been processed
AfterChoice(s, loop, choice) ==
    /\ cur' = [cur EXCEPT ![s] = Tail(@)]
    /\ pc' = [pc EXCEPT ![s] = IF Tail(cur[s]) = << >> THEN loop ELSE choice]

-----------------------------------------------------------------------------
(* stream_text: the generator, one action per resumption step               *)

\* text_id is one name shared by all requests instead of a local of the call
Open_SharedTextId(s) ==
    /\ s \in active /\ pc[s] = "start"
    /\ IF protocol[s] = "text"
       THEN /\ pc' = [pc EXCEPT ![s] = "t_loop"]
            /\ UNCHANGED <<text_id, uuid_next>>
       ELSE /\ text_id' = [t \in Streams |-> uuid_next]
            /\ uuid_next' = uuid_next + 1
            /\ pc' = [pc EXCEPT ![s] = IF sources[s] # << >> THEN "sources" ELSE "loop"]
    /\ UNCHANGED <<active, protocol, sources, emitted, text_started, usage_data,
                   src_i, cur, consumed, fault>>
    /\ UNCHANGED <<truncVars, chunkVars, chatVars>>

\* client.chat.completions.create(...) returns the provider stream
Open(s) ==
    /\ s \in active /\ pc[s] = "start"
    /\ IF protocol[s] = "text"
       THEN /\ pc' = [pc EXCEPT ![s] = "t_loop"]
            /\ UNCHANGED <<text_id, uuid_next>>
       ELSE /\ text_id' = [text_id EXCEPT ![s] = uuid_next]
            /\ uuid_next' = uuid_next + 1
            /\ pc' = [pc EXCEPT ![s] = IF sources[s] # << >> THEN "sources" ELSE "loop"]
    /\ UNCHANGED <<active, protocol, sources, emitted, text_started, usage_data,
                   src_i, cur, consumed, fault>>
    /\ UNCHANGED <<truncVars, chunkVars, chatVars>>

\* client.chat.completions.create(...) raises: the call is outside the try
CreateRaises(s) ==
    /\ s \in active /\ pc[s] = "start"
    /\ \E e \in Faults : fault' = [fault EXCEPT ![s] = e]
    /\ pc' = [pc EXCEPT ![s] = "raised"]
    /\ UNCHANGED <<active, protocol, sources, emitted, text_id, text_started,
                   usage_data, src_i, cur, consumed, uuid_next>>
    /\ UNCHANGED <<truncVars, chunkVars, chatVars>>

\* the loop over sources is left after its first iteration
EmitSource_StopsAfterFirst(s) ==
    /\ s \in active /\ pc[s] = "sources"
    /\ Yield(s, SourceDocument(uuid_next, sources[s][src_i[s]]))
    /\ uuid_next' = uuid_next + 1
    /\ src_i' = [src_i EXCEPT ![s] = @ + 1]
    /\ pc' = [pc EXCEPT ![s] = "loop"]
    /\ UNCHANGED <<active, protocol, sources, text_id, text_started, usage_data,
                   cur, consumed, fault>>
    /\ UNCHANGED <<truncVars, chunkVars, chatVars>>

\* one iteration of "for source in sources"
EmitSource(s) ==
    /\ s \in active /\ pc[s] = "sources"
    /\ Yield(s, SourceDocument(uuid_next, sources[s][src_i[s]]))
    /\ uuid_next' = uuid_next + 1
    /\ src_i' = [src_i EXCEPT ![s] = @ + 1]
    /\ pc' = [pc EXCEPT ![s] = IF src_i[s] = Len(sources[s]) THEN "loop" ELSE "sources"]
    /\ UNCHANGED <<active, protocol, sources, text_id, text_started, usage_data,
                   cur, consumed, fault>>
    /\ UNCHANGED <<truncVars, chunkVars, chatVars>>

\* the number of frames a run is followed for
\* the frames tried when two requests are streamed at the same time
PairFrames ==
    { Frame(<<Choice("a", "")>>, NoUsage),
      Frame(<<Choice("", "stop")>>, NoUsage),
      Frame(<< >>, UsageFull) }

\* the frames the provider may deliver to a request
FramesOffered == IF Cardinality(active) > 1 THEN PairFrames ELSE Frames

FrameLimit ==
    IF Cardinality(active) > 1 THEN MaxPairFrames
    ELSE IF h_pc = "idle" THEN MaxFrames ELSE MaxChatFrames

\* the next frame is requested while choices of the current one are pending
NextFrame_KeepsPending(s) ==
    /\ s \in active /\ pc[s] \in {"loop", "choice"}
    /\ Len(consumed[s]) < FrameLimit
    /\ \E f \in FramesOffered :
         /\ consumed' = [consumed EXCEPT ![s] = Append(@, f)]
         /\ usage_data' = [usage_data EXCEPT ![s] = IF f.usage.some THEN f.usage ELSE @]
         /\ cur' = [cur EXCEPT ![s] = @ \o f.choices]
         /\ pc' = [pc EXCEPT ![s] = IF cur[s] \o f.choices = << >> THEN "loop" ELSE "choice"]
    /\ UNCHANGED <<active, protocol, sources, emitted, text_id, text_started,
                   src_i, fault, uuid_next>>
    /\ UNCHANGED <<truncVars, chunkVars, chatVars>>

\* "for chunk in stream" delivers a frame; usage is captured; a frame
\* without choices is skipped
NextFrame(s) ==
    /\ s \in active /\ pc[s] = "loop"
    /\ Len(consumed[s]) < FrameLimit
    /\ \E f \in FramesOffered :
         /\ consumed' = [consumed EXCEPT ![s] = Append(@, f)]
         /\ usage_data' = [usage_data EXCEPT ![s] = IF f.usage.some THEN f.usage ELSE @]
         /\ cur' = [cur EXCEPT ![s] = f.choices]
         /\ pc' = [pc EXCEPT ![s] = IF f.choices = << >> THEN "loop" ELSE "choice"]
    /\ UNCHANGED <<active, protocol, sources, emitted, text_id, text_started,
                   src_i, fault, uuid_next>>
    /\ UNCHANGED <<truncVars, chunkVars, chatVars>>

\* text-start is sent but text_started stays False
TextStart_FlagNotSet(s) ==
    /\ s \in active /\ pc[s] = "choice"
    /\ ~text_started[s] /\ Head(cur[s]).content # ""
    /\ Yield(s, TextStartEv(text_id[s]))
    /\ pc' = [pc EXCEPT ![s] = "delta"]
    /\ UNCHANGED <<active, protocol, sources, text_id, text_started, usage_data,
                   src_i, cur, consumed, fault, uuid_next>>
    /\ UNCHANGED <<truncVars, chunkVars, chatVars>>

\* first content of the response: text-start is sent and the flag is set
TextStart(s) ==
    /\ s \in active /\ pc[s] = "choice"
    /\ ~text_started[s] /\ Head(cur[s]).content # ""
    /\ Yield(s, TextStartEv(text_id[s]))
    /\ text_started' = [text_started EXCEPT ![s] = TRUE]
    /\ pc' = [pc EXCEPT ![s] = "delta"]
    /\ UNCHANGED <<active, protocol, sources, text_id, usage_data, src_i, cur,
                   consumed, fault, uuid_next>>
    /\ UNCHANGED <<truncVars, chunkVars, chatVars>>

\* the fragment that opened the text block is not sent as a text-delta
TextDelta_FirstDropped(s) ==
    /\ s \in active
    /\ \/ pc[s] = "delta"
       \/ pc[s] = "choice" /\ text_started[s] /\ Head(cur[s]).content # ""
    /\ IF pc[s] = "delta" THEN UNCHANGED emitted
       ELSE Yield(s, TextDeltaEv(text_id[s], Head(cur[s]).content))
    /\ AfterChoice(s, "loop", "choice")
    /\ UNCHANGED <<active, protocol, sources, text_id, text_started, usage_data,
                   src_i, consumed, fault, uuid_next>>
    /\ UNCHANGED <<truncVars, chunkVars, chatVars>>

\* a choice with content: its text-delta is sent
TextDelta(s) ==
    /\ s \in active
    /\ \/ pc[s] = "delta"
       \/ pc[s] = "choice" /\ text_started[s] /\ Head(cur[s]).content # ""
    /\ Yield(s, TextDeltaEv(text_id[s], Head(cur[s]).content))
    /\ AfterChoice(s, "loop", "choice")
    /\ UNCHANGED <<active, protocol, sources, text_id, text_started, usage_data,
                   src_i, consumed, fault, uuid_next>>
    /\ UNCHANGED <<truncVars, chunkVars, chatVars>>

\* a choice whose delta has no content: nothing is sent
SkipChoice(s) ==
    /\ s \in active /\ pc[s] = "choice"
    /\ Head(cur[s]).content = ""
    /\ AfterChoice(s, "loop", "choice")
    /\ UNCHANGED <<active, protocol, sources, emitted, text_id, text_started,
                   usage_data, src_i, consumed, fault, uuid_next>>
    /\ UNCHANGED <<truncVars, chunkVars, chatVars>>

\* the provider stream is exhausted: the for loop ends
Exhausted(s) ==
    /\ s \in active /\ pc[s] = "loop"
    /\ pc' = [pc EXCEPT ![s] = "end"]
    /\ UNCHANGED <<active, protocol, sources, emitted, text_id, text_started,
                   usage_data, src_i, cur, consumed, fault, uuid_next>>
    /\ UNCHANGED <<truncVars, chunkVars, chatVars>>

\* "if text_started": text-end
TextEnd(s) ==
    /\ s \in active /\ pc[s] = "end"
    /\ IF text_started[s] THEN Yield(s, TextEndEv(text_id[s])) ELSE UNCHANGED emitted
    /\ pc' = [pc EXCEPT ![s] = "usage"]
    /\ UNCHANGED <<active, protocol, sources, text_id, text_started, usage_data,
                   src_i, cur, consumed, fault, uuid_next>>
    /\ UNCHANGED <<truncVars, chunkVars, chatVars>>

\* data-usage is sent whenever usage was captured, prompt_tokens or not
UsageData_IgnoresPrompt(s) ==
    /\ s \in active /\ pc[s] = "usage"
    /\ IF usage_data[s].some
       THEN Yield(s, UsageEv(usage_data[s]))
       ELSE UNCHANGED emitted
    /\ pc' = [pc EXCEPT ![s] = "finish"]
    /\ UNCHANGED <<active, protocol, sources, text_id, text_started, usage_data,
                   src_i, cur, consumed, fault, uuid_next>>
    /\ UNCHANGED <<truncVars, chunkVars, chatVars>>

\* "if usage_data and usage_data.get('prompt_tokens') is not None": data-usage
UsageData(s) ==
    /\ s \in active /\ pc[s] = "usage"
    /\ IF usage_data[s].some /\ usage_data[s].prompt_defined
       THEN Yield(s, UsageEv(usage_data[s]))
       ELSE UNCHANGED emitted
    /\ pc' = [pc EXCEPT ![s] = "finish"]
    /\ UNCHANGED <<active, protocol, sources, text_id, text_started, usage_data,
                   src_i, cur, consumed, fault, uuid_next>>
    /\ UNCHANGED <<truncVars, chunkVars, chatVars>>

\* finish
Finish(s) ==
    /\ s \in active /\ pc[s] = "finish"
    /\ Yield(s, FinishEv)
    /\ pc' = [pc EXCEPT ![s] = "finally"]
    /\ UNCHANGED <<active, protocol, sources, text_id, text_started, usage_data,
                   src_i, cur, consumed, fault, uuid_next>>
    /\ UNCHANGED <<truncVars, chunkVars, chatVars>>

\* an exception inside the try: the provider iterator raises when the next
\* frame is requested, or a malformed choice raises when it is read
Raise(s) ==
    /\ s \in active /\ pc[s] \in {"loop", "choice"}
    /\ \E e \in Faults : fault' = [fault EXCEPT ![s] = e]
    /\ pc' = [pc EXCEPT ![s] = "except"]
    /\ UNCHANGED <<active, protocol, sources, emitted, text_id, text_started,
                   usage_data, src_i, cur, consumed, uuid_next>>
    /\ UNCHANGED <<truncVars, chunkVars, chatVars>>

\* the sentinel at the end of the try body instead of in a finally clause
Except_SkipsFinally(s) ==
    /\ s \in active /\ pc[s] = "except"
    /\ Yield(s, ErrorEv(fault[s]))
    /\ pc' = [pc EXCEPT ![s] = "done"]
    /\ UNCHANGED <<active, protocol, sources, text_id, text_started, usage_data,
                   src_i, cur, consumed, fault, uuid_next>>
    /\ UNCHANGED <<truncVars, chunkVars, chatVars>>

\* the error event is sent inside the try and the body goes on to finish
Except_ThenFinish(s) ==
    /\ s \in active /\ pc[s] = "except"
    /\ Yield(s, ErrorEv(fault[s]))
    /\ pc' = [pc EXCEPT ![s] = "finish"]
    /\ UNCHANGED <<active, protocol, sources, text_id, text_started, usage_data,
                   src_i, cur, consumed, fault, uuid_next>>
    /\ UNCHANGED <<truncVars, chunkVars, chatVars>>

\* "except Exception as e": the error event
Except(s) ==
    /\ s \in active /\ pc[s] = "except"
    /\ Yield(s, ErrorEv(fault[s]))
    /\ pc' = [pc EXCEPT ![s] = "finally"]
    /\ UNCHANGED <<active, protocol, sources, text_id, text_started, usage_data,
                   src_i, cur, consumed, fault, uuid_next>>
    /\ UNCHANGED <<truncVars, chunkVars, chatVars>>

\* "finally": the terminal sentinel, then the generator returns
Finally(s) ==
    /\ s \in active /\ pc[s] = "finally"
    /\ Yield(s, DoneEv)
    /\ pc' = [pc EXCEPT ![s] = "done"]
    /\ UNCHANGED <<active, protocol, sources, text_id, text_started, usage_data,
                   src_i, cur, consumed, fault, uuid_next>>
    /\ UNCHANGED <<truncVars, chunkVars, chatVars>>

\* plain mode: "for chunk in stream" delivers a frame
PlainNextFrame(s) ==
    /\ s \in active /\ pc[s] = "t_loop"
    /\ Len(consumed[s]) < FrameLimit
    /\ \E f \in FramesOffered :
         /\ consumed' = [consumed EXCEPT ![s] = Append(@, f)]
         /\ cur' = [cur EXCEPT ![s] = f.choices]
         /\ pc' = [pc EXCEPT ![s] = IF f.choices = << >> THEN "t_loop" ELSE "t_choice"]
    /\ UNCHANGED <<active, protocol, sources, emitted, text_id, text_started,
                   usage_data, src_i, fault, uuid_next>>
    /\ UNCHANGED <<truncVars, chunkVars, chatVars>>

\* plain mode: one element of chunk.choices; "stop" breaks out of the
\* choices of this chunk, content is yielded raw
PlainChoice(s) ==
    /\ s \in active /\ pc[s] = "t_choice"
    /\ IF Head(cur[s]).finish_reason = "stop"
       THEN /\ cur' = [cur EXCEPT ![s] = << >>]
            /\ pc' = [pc EXCEPT ![s] = "t_loop"]
            /\ UNCHANGED emitted
       ELSE /\ AfterChoice(s, "t_loop", "t_choice")
            /\ IF Head(cur[s]).content # ""
               THEN Yield(s, RawEv(Head(cur[s]).content))
               ELSE UNCHANGED emitted
    /\ UNCHANGED <<active, protocol, sources, text_id, text_started, usage_data,
                   src_i, consumed, fault, uuid_next>>
    /\ UNCHANGED <<truncVars, chunkVars, chatVars>>

\* plain mode: the provider stream is exhausted, the generator returns
PlainExhausted(s) ==
    /\ s \in active /\ pc[s] = "t_loop"
    /\ pc' = [pc EXCEPT ![s] = "done"]
    /\ UNCHANGED <<active, protocol, sources, emitted, text_id, text_started,
                   usage_data, src_i, cur, consumed, fault, uuid_next>>
    /\ UNCHANGED <<truncVars, chunkVars, chatVars>>

\* plain mode: an exception propagates out of the generator (no try)
PlainRaise(s) ==
    /\ s \in active /\ pc[s] \in {"t_loop", "t_choice"}
    /\ \E e \in Faults : fault' = [fault EXCEPT ![s] = e]
    /\ pc' = [pc EXCEPT ![s] = "raised"]
    /\ UNCHANGED <<active, protocol, sources, emitted, text_id, text_started,
                   usage_data, src_i, cur, consumed, uuid_next>>
    /\ UNCHANGED <<truncVars, chunkVars, chatVars>>


-----------------------------------------------------------------------------
(* stream_text: the generator is closed by its consumer                     *)

\* the choice of the last frame that was processed last (there is one)
LastProcessed(s) ==
    LET ch == Last(consumed[s]).choices IN ch[Len(ch) - Len(cur[s])]

\* choices of the last frame have been processed
SomeProcessed(s) ==
    /\ consumed[s] # << >>
    /\ Len(Last(consumed[s]).choices) > Len(cur[s])

\* generator s is suspended at a yield: the last thing it did was to yield
\* an event
Suspended(s) ==
    CASE pc[s] = "sources"  -> src_i[s] > 1
      [] pc[s] = "loop"     -> IF consumed[s] = << >> THEN emitted[s] # << >>
                               ELSE SomeProcessed(s) /\ LastProcessed(s).content # ""
      [] pc[s] = "choice"   -> SomeProcessed(s) /\ LastProcessed(s).content # ""
      [] pc[s] = "delta"    -> TRUE
      [] pc[s] = "usage"    -> text_started[s]
      [] pc[s] = "finish"   -> usage_data[s].some /\ usage_data[s].prompt_defined
      [] pc[s] = "finally"  -> TRUE
      [] pc[s] = "t_loop"   -> /\ SomeProcessed(s)
                               /\ LastProcessed(s).content # ""
                               /\ \A k \in 1..Len(Last(consumed[s]).choices) :
                                    Last(consumed[s]).choices[k].finish_reason # "stop"
      [] pc[s] = "t_choice" -> SomeProcessed(s) /\ LastProcessed(s).content # ""
      [] OTHER              -> FALSE

\* the client disconnects and the generator is closed: GeneratorExit is
\* raised at the pending yield. "except Exception" does not catch it; in
\* data mode every yield is inside the try, so the finally clause runs; in
\* plain mode the generator ends
Close(s) ==
    /\ s \in active /\ Suspended(s)
    /\ pc' = [pc EXCEPT ![s] = IF protocol[s] = "text" THEN "closed" ELSE "closing"]
    /\ UNCHANGED <<active, protocol, sources, emitted, text_id, text_started,
                   usage_data, src_i, cur, consumed, fault, uuid_next>>
    /\ UNCHANGED <<truncVars, chunkVars, chatVars>>

\* the finally clause yields during the close: close() discards the value
\* and raises RuntimeError, and the generator stays suspended at that yield
FinallyOnClose(s) ==
    /\ s \in active /\ pc[s] = "closing"
    /\ pc' = [pc EXCEPT ![s] = "close_error"]
    /\ fault' = [fault EXCEPT ![s] = "generator ignored GeneratorExit"]
    /\ UNCHANGED <<active, protocol, sources, emitted, text_id, text_started,
                   usage_data, src_i, cur, consumed, uuid_next>>
    /\ UNCHANGED <<truncVars, chunkVars, chatVars>>

-----------------------------------------------------------------------------
(* count_message_tokens and truncate_messages_to_fit                        *)

RoleOverhead == 4
ImageTokens == 85
ReplyPriming == 2
SystemSlack == 100
DefaultReserved == 1000

\* A message content. A text is known by the number of tokens the encoder
\* gives for it (len); cut says that the text is the decoding of a proper
\* prefix of another text's tokens, and img counts the image_url parts of a
\* structured content (0 for a plain string).
Content(len, cut, img) == [len |-> len, cut |-> cut, img |-> img]

Msg(role, content) == [role |-> role, content |-> content]

\* len(encoder.encode(text)): a text that was cut at a token boundary need
\* not encode to the tokens it was decoded from
EncodeLen(c) == IF c.cut THEN Max(0, c.len + retok) ELSE c.len

\* encoder.decode(tokens[:k]) for tokens = encoder.encode(c)
DecodePrefix(c, k) ==
    IF k >= EncodeLen(c) THEN c ELSE Content(Max(0, k), TRUE, 0)

RECURSIVE CountMessageTokensFrom(_)
\* the loop of count_message_tokens: 4 per message plus its content
CountMessageTokensFrom(msgs) ==
    IF msgs = << >> THEN 0
    ELSE RoleOverhead + EncodeLen(Head(msgs).content)
         + ImageTokens * Head(msgs).content.img
         + CountMessageTokensFrom(Tail(msgs))

CountMessageTokens(msgs) == CountMessageTokensFrom(msgs) + ReplyPriming

RECURSIVE SystemMsg(_)
RECURSIVE SystemMsg_First(_)
\* the first message with role system is taken as the system message
SystemMsg_First(msgs) ==
    IF msgs = << >> THEN << >>
    ELSE IF Head(msgs).role = "system" THEN <<Head(msgs)>>
         ELSE SystemMsg_First(Tail(msgs))

\* system_msg after the partition loop: the last message with role system,
\* as a list of zero or one message
SystemMsg(msgs) ==
    IF msgs = << >> THEN << >>
    ELSE IF Last(msgs).role = "system" THEN <<Last(msgs)>>
         ELSE SystemMsg(SubSeq(msgs, 1, Len(msgs) - 1))

\* conversation: the messages whose role is not system, in order
Conversation(msgs) == SelectSeq(msgs, LAMBDA m : m.role # "system")

RECURSIVE LastUserMsg(_)
\* last_user_msg: the most recent message of the conversation with role user
LastUserMsg(conv) ==
    IF conv = << >> THEN << >>
    ELSE IF Last(conv).role = "user" THEN <<Last(conv)>>
         ELSE LastUserMsg(SubSeq(conv, 1, Len(conv) - 1))

\* count_message_tokens([msg]) if msg else 0
TokensOf(opt) == IF opt = << >> THEN 0 ELSE CountMessageTokens(opt)

\* the system message after "if max_system_tokens > 0 ... else ..."
TruncatedSystem(system_msg, max_system_tokens) ==
    IF max_system_tokens > 0
    THEN <<Msg("system", DecodePrefix(system_msg[1].content, max_system_tokens))>>
    ELSE << >>

\* the system message is cut to the whole of what the anchor leaves, no slack
SystemBranch_NoSlack(system_msg, last_user_msg, available) ==
    TruncatedSystem(system_msg, available - TokensOf(last_user_msg)) \o last_user_msg

\* the branch "system message too large": [system', last_user_msg]
SystemBranch(system_msg, last_user_msg, available) ==
    TruncatedSystem(system_msg, available - TokensOf(last_user_msg) - SystemSlack)
        \o last_user_msg

RECURSIVE KeepRecent(_, _)
RECURSIVE KeepRecent_StopsAtFirstMiss(_, _)
\* the walk ends at the first message that does not fit
KeepRecent_StopsAtFirstMiss(conv, remaining) ==
    IF conv = << >> THEN << >>
    ELSE LET msg == Last(conv)
             msg_tokens == CountMessageTokens(<<msg>>)
             older == SubSeq(conv, 1, Len(conv) - 1)
         IN  IF msg_tokens <= remaining
             THEN Append(KeepRecent_StopsAtFirstMiss(older, remaining - msg_tokens), msg)
             ELSE << >>

\* "for msg in reversed(conversation)": a message that fits the remaining
\* budget is inserted at the front of result
KeepRecent(conv, remaining) ==
    IF conv = << >> THEN << >>
    ELSE LET msg == Last(conv)
             msg_tokens == CountMessageTokens(<<msg>>)
             older == SubSeq(conv, 1, Len(conv) - 1)
         IN  IF msg_tokens <= remaining
             THEN Append(KeepRecent(older, remaining - msg_tokens), msg)
             ELSE KeepRecent(older, remaining)

\* the last user message is not added back after the walk
EnsureLastUser_Omitted(kept, last_user_msg) == kept

\* "if last_user_msg and last_user_msg not in result: result.append(...)"
EnsureLastUser(kept, last_user_msg) ==
    IF last_user_msg # << >> /\ \A i \in 1..Len(kept) : kept[i] # last_user_msg[1]
    THEN kept \o last_user_msg
    ELSE kept

\* the greedy branch, with the system message inserted at the front
GreedyBranch(system_msg, conversation, last_user_msg, available) ==
    system_msg \o EnsureLastUser(KeepRecent(conversation, available - TokensOf(system_msg)),
                                 last_user_msg)

TruncateMessagesToFit(msgs, maxTokens, reservedTokens) ==
    LET available == maxTokens - reservedTokens
        system_msg == SystemMsg(msgs)
        conversation == Conversation(msgs)
        last_user_msg == LastUserMsg(conversation)
    IN  IF system_msg # << >>
           /\ TokensOf(system_msg) > available - TokensOf(last_user_msg)
        THEN SystemBranch(system_msg, last_user_msg, available)
        ELSE GreedyBranch(system_msg, conversation, last_user_msg, available)

\* the messages tried as input
MsgSet ==
    { Msg("system", Content(3, FALSE, 0)),
      Msg("system", Content(120, FALSE, 0)),
      Msg("user", Content(1, FALSE, 0)),
      Msg("user", Content(3, FALSE, 0)),
      Msg("user", Content(1, FALSE, 1)),
      Msg("assistant", Content(1, FALSE, 0)),
      Msg("assistant", Content(3, FALSE, 0)) }

MaxTokensSet == {10, 16, 24, 110, 135, 1010, 1016, 1110}

ReservedSet == {0, DefaultReserved}

RetokSet == {-1, 0, 1}

\* the first call, cutting the system message in the caller's own list
Truncate_InPlace ==
    /\ t_pc = "input"
    /\ result' = TruncateMessagesToFit(messages, max_tokens, reserved)
    /\ t_pc' = "once"
    /\ messages' = [i \in 1..Len(messages) |->
                        IF /\ <<messages[i]>> = SystemMsg(messages)
                           /\ result' # << >>
                           /\ result'[1].role = "system"
                        THEN result'[1]
                        ELSE messages[i]]
    /\ UNCHANGED <<max_tokens, reserved, retok, result2>>
    /\ UNCHANGED <<streamVars, chunkVars, chatVars>>

\* the first call
Truncate ==
    /\ t_pc = "input"
    /\ result' = TruncateMessagesToFit(messages, max_tokens, reserved)
    /\ t_pc' = "once"
    /\ UNCHANGED <<messages, max_tokens, reserved, retok, result2>>
    /\ UNCHANGED <<streamVars, chunkVars, chatVars>>

\* the function applied to its own output, with the same limits
TruncateAgain ==
    /\ t_pc = "once"
    /\ result2' = TruncateMessagesToFit(result, max_tokens, reserved)
    /\ t_pc' = "twice"
    /\ UNCHANGED <<messages, max_tokens, reserved, retok, result>>
    /\ UNCHANGED <<streamVars, chunkVars, chatVars>>

-----------------------------------------------------------------------------
(* DocumentService._chunk_text                                              *)

RECURSIVE PyRange(_, _, _)
\* range(start, stop, step) for step > 0
PyRange(start, stop, step) ==
    IF start >= stop THEN << >> ELSE <<start>> \o PyRange(start + step, stop, step)

\* tokens[i : i + chunk_size]
Window(toks, i, size) == SubSeq(toks, i + 1, Min(i + size, Len(toks)))

\* one element of chunks; text is the decoding of the window
Chunk(toks, i, size) ==
    [text |-> Window(toks, i, size), start_index |-> i,
     token_count |-> Len(Window(toks, i, size))]

\* the starts of a loop that steps by chunk_size + overlap
ChunkStarts_StepPlusOverlap(n, size, ovl) ==
    IF size + ovl > 0 THEN PyRange(0, n, size + ovl) ELSE << >>

\* the starts "range(0, len(tokens), chunk_size - overlap)" yields: none for a
\* negative step (a step of 0 raises and is handled by the caller)
ChunkStarts(n, size, ovl) ==
    IF size - ovl > 0 THEN PyRange(0, n, size - ovl) ELSE << >>

ChunkText(toks, size, ovl) ==
    LET starts == ChunkStarts(Len(toks), size, ovl)
    IN  [k \in 1..Len(starts) |-> Chunk(toks, starts[k], size)]

\* _chunk_text returns, or range() raises ValueError for a step of 0
ChunkTextCall ==
    /\ c_pc = "input"
    /\ IF chunk_size - overlap = 0
       THEN /\ c_pc' = "raised"
            /\ UNCHANGED chunks
       ELSE /\ c_pc' = "done"
            /\ chunks' = ChunkText(tokens, chunk_size, overlap)
    /\ UNCHANGED <<tokens, chunk_size, overlap>>
    /\ UNCHANGED <<streamVars, truncVars, chatVars>>

-----------------------------------------------------------------------------
(* handle_chat_data: retrieval, ranking and the prompt of a chat request    *)

\* "[:3]": the hits that are cited and injected
TopDisplay == 3

\* "[:500]": the characters of a passage shown in its citation
CitationChars == 500

\* a text of len characters; body names its content
Text(body, len) == [body |-> body, len |-> len]

\* text[:k]
Prefix(text, k) == Text(text.body, Min(text.len, k))

\* one element of the list search_similar returns; score in units of 10^-5
Match(id, score, filename, chunk_index, text) ==
    [id |-> id, score |-> score,
     metadata |-> [filename |-> filename, chunk_index |-> chunk_index, text |-> text]]

\* the hits the vector store may hold for a query: two with the same score,
\* two that differ only in the fifth decimal, passages longer and shorter
\* than a citation
Matches ==
    { Match("s1", 91234, "a.pdf", 0, Text("t1", 600)),
      Match("s2", 91234, "a.pdf", 1, Text("t2", 40)),
      Match("s3", 91238, "b.pdf", 0, Text("t3", 500)),
      Match("s4", 50000, "b.pdf", 3, Text("t4", 501)) }

\* results["matches"]: distinct hits in any arrival order
MatchLists ==
    { m \in UNION { [1..n -> Matches] : n \in 0..Min(MaxHits, Cardinality(Matches)) } :
        \A i, j \in 1..Len(m) : i # j => m[i] # m[j] }

\* round(score, 4), ties to the even digit
Round4(v) ==
    LET r == v % 10
        down == v - r
    IN  IF r < 5 THEN down
        ELSE IF r > 5 THEN down + 10
        ELSE IF (down \div 10) % 2 = 0 THEN down ELSE down + 10

Reverse(q) == [i \in 1..Len(q) |-> q[Len(q) + 1 - i]]

RECURSIVE InsertByScore(_, _)
\* x placed in the ascending list q after every element whose score is not
\* greater than its own
InsertByScore(q, x) ==
    IF q = << >> THEN <<x>>
    ELSE IF Head(q).score <= x.score THEN <<Head(q)>> \o InsertByScore(Tail(q), x)
         ELSE <<x>> \o q

RECURSIVE SortByScore(_)
\* sorted(q, key=score): ascending, equal scores in their order in q
SortByScore(q) ==
    IF q = << >> THEN << >>
    ELSE InsertByScore(SortByScore(SubSeq(q, 1, Len(q) - 1)), Last(q))

\* the ascending sort reversed: equal scores come out in the reverse of
\* their order in q
SortedByScoreDesc_PlainReverse(q) == Reverse(SortByScore(q))

\* sorted(q, key=score, reverse=True): the list is reversed, sorted ascending
\* and reversed again, so equal scores keep their order in q
SortedByScoreDesc(q) == Reverse(SortByScore(Reverse(q)))

\* q[:n]
FirstN(q, n) == SubSeq(q, 1, Min(n, Len(q)))

\* the passages go into the prompt from their own cut of the list
InjectedChunks_OwnCut(similar) == FirstN(similar, TopDisplay + 1)

\* similar_chunks[:3] of the join
InjectedChunks(similar) == FirstN(similar, TopDisplay)

\* one element of rag_sources
Citation(chunk) ==
    [type |-> "document", id |-> chunk.id,
     filename |-> chunk.metadata.filename,
     chunk_index |-> chunk.metadata.chunk_index,
     score |-> Round4(chunk.score),
     text |-> Prefix(chunk.metadata.text, CitationChars)]

\* the loop over enumerate(similar_chunks[:3])
RagSources(similar) ==
    [i \in 1..Len(FirstN(similar, TopDisplay)) |-> Citation(FirstN(similar, TopDisplay)[i])]

\* a piece of a message content: a literal string or a passage
Lit(s) == [kind |-> "literal", body |-> s, len |-> 0]
Passage(text) == [kind |-> "passage", body |-> text.body, len |-> text.len]

BlankLine == Lit("\n\n")

RECURSIVE Join(_, _)
\* sep.join(texts)
Join(sep, texts) ==
    IF texts = << >> THEN << >>
    ELSE IF Len(texts) = 1 THEN <<Passage(texts[1])>>
    ELSE <<Passage(Head(texts)), sep>> \o Join(sep, Tail(texts))

\* context: the texts of the injected chunks joined by a blank line
Context(similar) ==
    Join(BlankLine, [i \in 1..Len(InjectedChunks(similar)) |->
                        InjectedChunks(similar)[i].metadata.text])

\* context_addition
ContextAddition(similar) ==
    <<Lit("\n\nRelevant context from knowledge base:\n")>> \o Context(similar)

ChatMsg(role, content) == [role |-> role, content |-> content]

RagInstruction ==
    Lit("You are given access to a knowledge base. Provide accurate, concise responses based on the context provided.")

\* the system prompts of a request: none, one that does not mention the
\* knowledge base, one that does
SystemPrompts == {"", "Be brief.", "Use the context."}

\* "knowledge base" in system_prompt.lower() or "context" in it
MentionsContext(p) == p = "Use the context."

\* the system message the handler starts openai_messages with
SystemPart(req) ==
    IF req.system_prompt # "" \/ req.use_rag
    THEN LET p == IF req.system_prompt = "" THEN << >> ELSE <<Lit(req.system_prompt)>>
             sp == IF req.use_rag /\ ~MentionsContext(req.system_prompt)
                   THEN (IF p # << >> THEN p \o <<BlankLine, RagInstruction>>
                         ELSE <<RagInstruction>>)
                   ELSE p
         IN  IF sp # << >> THEN <<ChatMsg("system", sp)>> ELSE << >>
    ELSE << >>

\* a message of the request: its role, its text and whether one of its parts
\* is malformed (a file part whose mediaType is null)
ReqMsg(role, text, malformed) == [role |-> role, text |-> text, malformed |-> malformed]

\* a text of more tokens than the context of the model holds
LongText == "long text"

\* the conversations of a request
MessageLists ==
    { << >>,
      <<ReqMsg("user", "q", FALSE)>>,
      <<ReqMsg("user", "", FALSE), ReqMsg("assistant", "r", FALSE)>>,
      <<ReqMsg("user", LongText, FALSE), ReqMsg("assistant", "r", FALSE),
        ReqMsg("user", "q", FALSE)>>,
      <<ReqMsg("user", "q", TRUE)>> }

ChatRequest(use_rag, system_prompt, msgs) ==
    [use_rag |-> use_rag, system_prompt |-> system_prompt, messages |-> msgs]

Requests ==
    { ChatRequest(u, p, m) : u \in BOOLEAN, p \in SystemPrompts, m \in MessageLists }

\* the loop over request.messages
Converted(msgs) ==
    [i \in 1..Len(msgs) |->
        ChatMsg(msgs[i].role,
                IF msgs[i].text = "" THEN << >> ELSE <<Lit(msgs[i].text)>>)]

RECURSIVE QueryText(_)
\* get_text_content() of the last message with role user, "" when there is
\* none
QueryText(msgs) ==
    IF msgs = << >> THEN ""
    ELSE IF Last(msgs).role = "user" THEN Last(msgs).text
         ELSE QueryText(SubSeq(msgs, 1, Len(msgs) - 1))

\* openai_messages after the context was added to it
WithContext(msgs, addition) ==
    IF msgs # << >> /\ msgs[1].role = "system"
    THEN [msgs EXCEPT ![1].content = @ \o addition]
    ELSE <<ChatMsg("system", <<Lit("Context from knowledge base:")>> \o addition)>>
            \o msgs

\* a part of the conversion raises: the outer except answers HTTP 500
ConvertRaises ==
    /\ h_pc = "start"
    /\ \E i \in 1..Len(request.messages) : request.messages[i].malformed
    /\ h_pc' = "http_500"
    /\ UNCHANGED <<request, matches, similar_chunks, rag_sources, openai_messages,
                   retrieval>>
    /\ UNCHANGED <<streamVars, truncVars, chunkVars>>

\* openai_messages is built: the system prompt and the conversation
BuildMessages ==
    /\ h_pc = "start"
    /\ \A i \in 1..Len(request.messages) : ~request.messages[i].malformed
    /\ openai_messages' = SystemPart(request) \o Converted(request.messages)
    /\ IF request.use_rag /\ request.messages # << >> /\ QueryText(request.messages) # ""
       THEN h_pc' = "embed" /\ UNCHANGED retrieval
       ELSE h_pc' = "respond" /\ retrieval' = "skipped"
    /\ UNCHANGED <<request, matches, similar_chunks, rag_sources>>
    /\ UNCHANGED <<streamVars, truncVars, chunkVars>>

\* generate_embedding returns
Embed ==
    /\ h_pc = "embed"
    /\ h_pc' = "search"
    /\ UNCHANGED <<request, matches, similar_chunks, rag_sources, openai_messages,
                   retrieval>>
    /\ UNCHANGED <<streamVars, truncVars, chunkVars>>

\* generate_embedding raises
EmbedRaises ==
    /\ h_pc = "embed"
    /\ h_pc' = "except"
    /\ retrieval' = "embed_failed"
    /\ UNCHANGED <<request, matches, similar_chunks, rag_sources, openai_messages>>
    /\ UNCHANGED <<streamVars, truncVars, chunkVars>>

\* search_similar returns the matches of the index
Search ==
    /\ h_pc = "search"
    /\ \E m \in MatchLists :
         /\ matches' = m
         /\ similar_chunks' = m
         /\ retrieval' = IF m = << >> THEN "empty" ELSE "hits"
    /\ h_pc' = "rank"
    /\ UNCHANGED <<request, rag_sources, openai_messages>>
    /\ UNCHANGED <<streamVars, truncVars, chunkVars>>

\* the query of the index raises: search_similar catches it and returns []
SearchFails ==
    /\ h_pc = "search"
    /\ matches' = << >>
    /\ similar_chunks' = << >>
    /\ retrieval' = "search_failed"
    /\ h_pc' = "rank"
    /\ UNCHANGED <<request, rag_sources, openai_messages>>
    /\ UNCHANGED <<streamVars, truncVars, chunkVars>>

\* the hits are sorted; when there is one, the citations are built and the
\* context is added to the system message
Rank ==
    /\ h_pc = "rank"
    /\ LET sorted == SortedByScoreDesc(similar_chunks) IN
         /\ similar_chunks' = sorted
         /\ IF sorted # << >>
            THEN /\ rag_sources' = RagSources(sorted)
                 /\ openai_messages' = WithContext(openai_messages, ContextAddition(sorted))
            ELSE UNCHANGED <<rag_sources, openai_messages>>
    /\ h_pc' = "respond"
    /\ UNCHANGED <<request, matches, retrieval>>
    /\ UNCHANGED <<streamVars, truncVars, chunkVars>>

\* the exception is passed on instead of being logged
RetrievalExcept_Reraises ==
    /\ h_pc = "except"
    /\ h_pc' = "http_500"
    /\ UNCHANGED <<request, matches, similar_chunks, rag_sources, openai_messages,
                   retrieval>>
    /\ UNCHANGED <<streamVars, truncVars, chunkVars>>

\* "except Exception as e: logger.warning(...)"
RetrievalExcept ==
    /\ h_pc = "except"
    /\ h_pc' = "respond"
    /\ UNCHANGED <<request, matches, similar_chunks, rag_sources, openai_messages,
                   retrieval>>
    /\ UNCHANGED <<streamVars, truncVars, chunkVars>>

\* MODEL_CONTEXT_LIMITS of the default model of a ChatRequest
ModelLimit == 131072

\* len(encoder.encode(s)) of a literal string
TextTokens(s) == IF s = LongText THEN ModelLimit + 1 ELSE 12

\* len(encoder.encode(...)) of one piece of a content: about four characters
\* of a passage to the token
PartTokens(p) == IF p.kind = "passage" THEN p.len \div 4 ELSE TextTokens(p.body)

RECURSIVE ContentTokens(_)
\* len(encoder.encode(content))
ContentTokens(content) ==
    IF content = << >> THEN 0
    ELSE PartTokens(Head(content)) + ContentTokens(Tail(content))

\* a list of openai messages as count_message_tokens sees it
Budgeted(msgs) ==
    [i \in 1..Len(msgs) |->
        Msg(msgs[i].role, Content(ContentTokens(msgs[i].content), FALSE, 0))]

\* the ids of a list of citations: what the stream model keeps of a source
SourceKeys(cits) == [i \in 1..Len(cits) |-> cits[i].id]

\* the StreamingResponse is returned: the generator is created with
\* openai_messages and sources=rag_sources (None when empty); the protocol
\* argument is left at its default and the handler's other locals are gone
Respond ==
    /\ h_pc = "respond"
    /\ LET s == CHOOSE x \in Streams : x \notin active IN
         /\ active' = active \cup {s}
         /\ protocol' = [protocol EXCEPT ![s] = "data"]
         /\ sources' = [sources EXCEPT ![s] = SourceKeys(rag_sources)]
    /\ h_pc' = "streaming"
    /\ matches' = << >>
    /\ similar_chunks' = << >>
    /\ UNCHANGED <<request, rag_sources, openai_messages, retrieval>>
    /\ UNCHANGED <<pc, emitted, text_id, text_started, usage_data, src_i, cur,
                   consumed, fault, uuid_next>>
    /\ UNCHANGED <<truncVars, chunkVars>>

-----------------------------------------------------------------------------
(* Specifications                                                           *)

StreamIdle ==
    /\ pc = [s \in Streams |-> "start"]
    /\ emitted = [s \in Streams |-> << >>]
    /\ text_id = [s \in Streams |-> 0]
    /\ text_started = [s \in Streams |-> FALSE]
    /\ usage_data = [s \in Streams |-> NoUsage]
    /\ src_i = [s \in Streams |-> 1]
    /\ cur = [s \in Streams |-> << >>]
    /\ consumed = [s \in Streams |-> << >>]
    /\ fault = [s \in Streams |-> ""]
    /\ uuid_next = 1

TruncIdle ==
    /\ t_pc = "input"
    /\ result = << >>
    /\ result2 = << >>

ChunkIdle ==
    /\ c_pc = "input"
    /\ chunks = << >>

\* no chat request is being handled
ChatIdle ==
    /\ h_pc = "idle"
    /\ request = ChatRequest(FALSE, "", << >>)
    /\ matches = << >>
    /\ similar_chunks = << >>
    /\ rag_sources = << >>
    /\ openai_messages = << >>
    /\ retrieval = "none"

\* one request is streamed
InitStream ==
    /\ active = {"r1"}
    /\ protocol \in [Streams -> {"data", "text"}]
    /\ protocol["r2"] = "data"
    /\ sources \in [Streams -> SourceLists]
    /\ sources["r2"] = << >>
    /\ StreamIdle
    /\ TruncIdle /\ messages = << >> /\ max_tokens = 0 /\ reserved = 0 /\ retok = 0
    /\ ChunkIdle /\ tokens = << >> /\ chunk_size = 1 /\ overlap = 0
    /\ ChatIdle

\* one step of generator s
StreamStep(s) ==
        \/ Open(s)
        \/ CreateRaises(s)
        \/ EmitSource(s)
        \/ NextFrame(s)
        \/ TextStart(s)
        \/ TextDelta(s)
        \/ SkipChoice(s)
        \/ Exhausted(s)
        \/ TextEnd(s)
        \/ UsageData(s)
        \/ Finish(s)
        \/ Raise(s)
        \/ Except(s)
        \/ Finally(s)
        \/ PlainNextFrame(s)
        \/ PlainChoice(s)
        \/ PlainExhausted(s)
        \/ PlainRaise(s)

NextStream == \E s \in Streams : StreamStep(s)

SpecStream == InitStream /\ [][NextStream]_vars

\* one request is streamed and its client may disconnect
NextClose == \E s \in Streams : StreamStep(s) \/ Close(s) \/ FinallyOnClose(s)

SpecClose == InitStream /\ [][NextClose]_vars

\* two requests are streamed at the same time, their steps interleaved
InitPair ==
    /\ active = {"r1", "r2"}
    /\ protocol \in [Streams -> {"data", "text"}]
    /\ protocol["r1"] = "data"
    /\ sources = [s \in Streams |-> IF s = "r1" THEN <<"s1">> ELSE << >>]
    /\ StreamIdle
    /\ TruncIdle /\ messages = << >> /\ max_tokens = 0 /\ reserved = 0 /\ retok = 0
    /\ ChunkIdle /\ tokens = << >> /\ chunk_size = 1 /\ overlap = 0
    /\ ChatIdle

NextPair == \E s \in Streams : StreamStep(s)

SpecPair == InitPair /\ [][NextPair]_vars

\* truncate_messages_to_fit on every input within the bounds
InitTrunc ==
    /\ messages \in UNION { [1..n -> MsgSet] : n \in 0..MaxMsgs }
    /\ max_tokens \in MaxTokensSet
    /\ reserved \in ReservedSet
    /\ retok \in RetokSet
    /\ TruncIdle
    /\ active = {} /\ protocol = [s \in Streams |-> "data"]
    /\ sources = [s \in Streams |-> << >>]
    /\ StreamIdle
    /\ ChunkIdle /\ tokens = << >> /\ chunk_size = 1 /\ overlap = 0
    /\ ChatIdle

NextTrunc == Truncate \/ TruncateAgain

SpecTrunc == InitTrunc /\ [][NextTrunc]_vars

\* _chunk_text on every input within the bounds
InitChunk ==
    /\ tokens \in { [i \in 1..n |-> i] : n \in 0..MaxN }
    /\ chunk_size \in 1..MaxChunkSize
    /\ overlap \in 0..MaxOverlap
    /\ ChunkIdle
    /\ active = {} /\ protocol = [s \in Streams |-> "data"]
    /\ sources = [s \in Streams |-> << >>]
    /\ StreamIdle
    /\ TruncIdle /\ messages = << >> /\ max_tokens = 0 /\ reserved = 0 /\ retok = 0
    /\ ChatIdle

NextChunk == ChunkTextCall

SpecChunk == InitChunk /\ [][NextChunk]_vars

\* one chat request is handled and its response is streamed
InitChat ==
    /\ h_pc = "start"
    /\ request \in Requests
    /\ matches = << >>
    /\ similar_chunks = << >>
    /\ rag_sources = << >>
    /\ openai_messages = << >>
    /\ retrieval = "none"
    /\ active = {} /\ protocol = [s \in Streams |-> "data"]
    /\ sources = [s \in Streams |-> << >>]
    /\ StreamIdle
    /\ TruncIdle /\ messages = << >> /\ max_tokens = 0 /\ reserved = 0 /\ retok = 0
    /\ ChunkIdle /\ tokens = << >> /\ chunk_size = 1 /\ overlap = 0

\* one step of the handler
HandlerStep ==
        \/ ConvertRaises
        \/ BuildMessages
        \/ Embed
        \/ EmbedRaises
        \/ Search
        \/ SearchFails
        \/ Rank
        \/ RetrievalExcept
        \/ Respond

\* one step of the generator of the response, always in data mode
ResponseStep(s) ==
        \/ Open(s)
        \/ CreateRaises(s)
        \/ EmitSource(s)
        \/ NextFrame(s)
        \/ TextStart(s)
        \/ TextDelta(s)
        \/ SkipChoice(s)
        \/ Exhausted(s)
        \/ TextEnd(s)
        \/ UsageData(s)
        \/ Finish(s)
        \/ Raise(s)
        \/ Except(s)
        \/ Finally(s)

NextChat == HandlerStep \/ \E s \in Streams : ResponseStep(s)

SpecChat == InitChat /\ [][NextChat]_vars

Init == InitStream \/ InitTrunc \/ InitChunk \/ InitChat

Next == NextStream \/ NextTrunc \/ NextChunk \/ NextChat

Spec == Init /\ [][Next]_vars


-----------------------------------------------------------------------------
(* Vocabulary of the properties                                             *)

RECURSIVE ChoiceContents(_)
\* the non-empty delta contents of a list of choices, in order
ChoiceContents(cs) ==
    IF cs = << >> THEN << >>
    ELSE (IF Head(cs).content # "" THEN <<Head(cs).content>> ELSE << >>)
         \o ChoiceContents(Tail(cs))

RECURSIVE FrameContents(_)
\* the non-empty delta contents of a list of frames, in arrival order
FrameContents(fs) ==
    IF fs = << >> THEN << >>
    ELSE ChoiceContents(Head(fs).choices) \o FrameContents(Tail(fs))

\* the fragments of the frames delivered to s that stream_text has processed
Relayed(s) ==
    LET all == FrameContents(consumed[s])
    IN  SubSeq(all, 1, Len(all) - Len(ChoiceContents(cur[s])))

\* the texts carried by the text-delta events of q, in order
DeltaTexts(q) == [i \in 1..Len(SelectType(q, {"text-delta"})) |->
                    SelectType(q, {"text-delta"})[i].text]

\* a data-mode request whose provider stream was opened
DataOpened(s) == s \in active /\ protocol[s] = "data" /\ pc[s] \notin {"start", "raised"}

\* the events after the leading source-document events
AfterSources(q) == SubSeq(q, CountType(q, "source-document") + 1, Len(q))

SourcesFirst(q) == \A i \in 1..CountType(q, "source-document") : q[i].type = "source-document"

-----------------------------------------------------------------------------
(* C1..C4: the event sequence of stream_text                                *)

\* C1: in data mode, once the provider stream is opened, the run always goes
\* on to its end (it is never stuck before it), the sentinel [DONE] is emitted
\* at most once, nothing is emitted after it, and a finished run, whether
\* the frames ended normally or a frame raised, has emitted it exactly once
\* as its last event.
C1_SentinelOnceLast ==
    \A s \in Streams :
        DataOpened(s) =>
            /\ CountType(emitted[s], "[DONE]") <= 1
            /\ CountType(emitted[s], "[DONE]") = 1 =>
                   pc[s] = "done" /\ Last(emitted[s]) = DoneEv
            /\ pc[s] = "done" => CountType(emitted[s], "[DONE]") = 1
            /\ pc[s] # "done" => ENABLED StreamStep(s)

\* a frame raised after text was relayed, and the run has finished
C1_Witness ==
    \E s \in Streams :
        /\ DataOpened(s) /\ pc[s] = "done" /\ fault[s] # ""
        /\ CountType(emitted[s], "text-delta") >= 1
        /\ CountType(emitted[s], "error") = 1

\* C2: in data mode, when the provider's frames hold at least one non-empty
\* delta and the stream ends without a fault, the emitted sequence holds
\* exactly one text-start and one text-end with the same id, every text-delta
\* carries that id and lies strictly between them, and the deltas are the
\* provider's non-empty fragments in arrival order.
C2_OneTextBlock ==
    \A s \in Streams :
        (DataOpened(s) /\ pc[s] = "done" /\ fault[s] = ""
            /\ FrameContents(consumed[s]) # << >>) =>
            LET ev == emitted[s] IN
            /\ CountType(ev, "text-start") = 1
            /\ CountType(ev, "text-end") = 1
            /\ \E i, j \in 1..Len(ev) :
                 /\ i < j
                 /\ ev[i].type = "text-start" /\ ev[j].type = "text-end"
                 /\ ev[i].id = ev[j].id
                 /\ \A k \in 1..Len(ev) :
                      ev[k].type = "text-delta" => i < k /\ k < j /\ ev[k].id = ev[i].id
            /\ DeltaTexts(ev) = FrameContents(consumed[s])

\* a finished fault-free run that relayed two different fragments
C2_Witness ==
    \E s \in Streams :
        /\ DataOpened(s) /\ pc[s] = "done" /\ fault[s] = ""
        /\ DeltaTexts(emitted[s]) = <<"b", "a", "b">>
        /\ CountType(emitted[s], "text-end") = 1

\* what the client has received when the stream raised after the fragments
\* in relayed: text-start and the text-deltas (nothing when there is none)
TextSoFar(id, relayed) ==
    IF relayed = << >> THEN << >>
    ELSE <<TextStartEv(id)>> \o [i \in 1..Len(relayed) |-> TextDeltaEv(id, relayed[i])]

\* C3: when the provider stream raises after k non-empty deltas were relayed,
\* the client receives, after the source-document events, text-start and the
\* k text-deltas (nothing for k = 0), then one error event carrying the
\* failure description, then the sentinel, and nothing else: no text-end, no
\* finish, and what was emitted before the fault stays as it was.
C3_ErrorPath ==
    \A s \in Streams :
        (DataOpened(s) /\ fault[s] # "") =>
            LET ev == emitted[s]
                text == TextSoFar(text_id[s], Relayed(s))
            IN  /\ pc[s] \in {"except", "finally", "done"}
                /\ SourcesFirst(ev)
                /\ pc[s] = "except" => AfterSources(ev) = text
                /\ pc[s] = "finally" => AfterSources(ev) = text \o <<ErrorEv(fault[s])>>
                /\ pc[s] = "done" =>
                       AfterSources(ev) = text \o <<ErrorEv(fault[s]), DoneEv>>

\* the provider raised after exactly 3 deltas (scenario D), sources present
C3_Witness ==
    \E s \in Streams :
        /\ DataOpened(s) /\ pc[s] = "done" /\ fault[s] # ""
        /\ CountType(emitted[s], "text-delta") = 3
        /\ CountType(emitted[s], "source-document") = 2

\* C4: in data mode the sentinel is the last event on every exit path, also
\* when the generate call that opens the provider stream fails.
C4_SentinelWhenCreateFails ==
    \A s \in Streams :
        (s \in active /\ protocol[s] = "data" /\ pc[s] \in {"done", "raised"}) =>
            emitted[s] # << >> /\ Last(emitted[s]) = DoneEv


-----------------------------------------------------------------------------
(* C5..C8: truncate_messages_to_fit                                         *)

\* the positions of the messages of msgs with the given role
RoleIdx(msgs, role) == { i \in 1..Len(msgs) : msgs[i].role = role }

\* the most recent message of msgs with the given role (there is one)
MostRecent(msgs, role) ==
    msgs[CHOOSE i \in RoleIdx(msgs, role) : \A j \in RoleIdx(msgs, role) : j <= i]

Available == max_tokens - reserved

\* the anchor of the input, as a list of zero or one message
AnchorOf(msgs) ==
    IF RoleIdx(msgs, "user") = {} THEN << >> ELSE <<MostRecent(msgs, "user")>>

\* count_message_tokens([m]) for the message of a zero-or-one list, else 0
CostOf(opt) == IF opt = << >> THEN 0 ELSE CountMessageTokens(opt)

\* the input has a system message whose cost exceeds available minus the
\* anchor's cost
SystemTooLarge ==
    /\ RoleIdx(messages, "system") # {}
    /\ CountMessageTokens(<<MostRecent(messages, "system")>>)
           > Available - CostOf(AnchorOf(messages))

SystemOut(out) == IF out # << >> /\ out[1].role = "system" THEN <<out[1]>> ELSE << >>

\* C6: when the system message (as it is after its truncation pass) together
\* with the anchor fits in available, the cost of the whole output, by
\* count_message_tokens, is at most available. (The premise is taken in its
\* strongest reading: the two single-message costs add up to at most
\* available.)
C6_OutputFits ==
    (t_pc # "input"
        /\ CostOf(SystemOut(result)) + CostOf(AnchorOf(messages)) <= Available) =>
        CountMessageTokens(result) <= Available

\* C7: truncating the output again with the same limits returns the same
\* sequence.
C7_Idempotent == t_pc = "twice" => result2 = result

-----------------------------------------------------------------------------
(* C9, C10: the number of chunks of _chunk_text                             *)

\* ceil(a / b) for a >= 0 and b > 0
CeilDiv(a, b) == (a + b - 1) \div b

\* the configuration is valid: 0 <= overlap < chunk_size
ValidChunkConfig == 0 <= overlap /\ overlap < chunk_size

\* C9: for a text of N tokens with N > chunkSize and 0 <= overlap < chunkSize,
\* _chunk_text returns exactly ceil((N - overlap) / (chunkSize - overlap))
\* chunks.
C9_ChunkCount ==
    (c_pc # "input" /\ ValidChunkConfig /\ Len(tokens) > chunk_size) =>
        /\ c_pc = "done"
        /\ Len(chunks) = CeilDiv(Len(tokens) - overlap, chunk_size - overlap)

\* C10: for a text of N tokens with N <= chunkSize and 0 <= overlap <
\* chunkSize, _chunk_text returns without raising, with exactly one chunk
\* when 0 < N (also when N > chunkSize - overlap) and no chunk when N = 0.
C10_SingleChunk ==
    (c_pc # "input" /\ ValidChunkConfig /\ Len(tokens) <= chunk_size) =>
        /\ c_pc = "done"
        /\ Len(chunks) = (IF Len(tokens) = 0 THEN 0 ELSE 1)


-----------------------------------------------------------------------------
(* C11, C12: coverage of the chunks and the invalid configurations          *)

\* the index one past the last token of chunk c
ChunkEnd(c) == c.start_index + c.token_count

\* the tokens of chunk c that lie at or after position from
TailFrom(c, from) ==
    IF from >= ChunkEnd(c) THEN << >>
    ELSE SubSeq(c.text, Max(from - c.start_index, 0) + 1, Len(c.text))

RECURSIVE Reconstruct(_, _, _)
\* the first chunk followed by the non-overlapping tail of each later one:
\* cs[k..], given that the tokens before position covered are already taken
Reconstruct(cs, k, covered) ==
    IF k > Len(cs) THEN << >>
    ELSE TailFrom(cs[k], covered)
            \o Reconstruct(cs, k + 1, Max(covered, ChunkEnd(cs[k])))

\* the chunks are in the order of their start_index
OrderedByStart(cs) ==
    \A k \in 1..(Len(cs) - 1) : cs[k].start_index < cs[k + 1].start_index

\* C11: for every token sequence and every 0 <= overlap < chunkSize the
\* chunks of _chunk_text, in the order of start_index, leave no gap: each
\* chunk after the first starts at or before the end of the previous one,
\* and the first chunk followed by the non-overlapping tail of each later
\* chunk is the original token sequence.
C11_NoGapReconstruct ==
    (c_pc # "input" /\ ValidChunkConfig) =>
        /\ c_pc = "done"
        /\ OrderedByStart(chunks)
        /\ \A k \in 2..Len(chunks) :
                chunks[k].start_index <= ChunkEnd(chunks[k - 1])
        /\ Len(chunks) > 0 => chunks[1].start_index = 0
        /\ \A k \in 1..Len(chunks) :
                /\ chunks[k].token_count = Len(chunks[k].text)
                /\ chunks[k].text =
                        SubSeq(tokens, chunks[k].start_index + 1, ChunkEnd(chunks[k]))
        /\ Reconstruct(chunks, 1, 0) = tokens

\* three chunks or more with a real overlap between neighbours
C11_Witness ==
    /\ c_pc = "done" /\ ValidChunkConfig /\ overlap > 0
    /\ Len(chunks) >= 3
    /\ chunks[2].start_index < ChunkEnd(chunks[1])
    /\ Reconstruct(chunks, 1, 0) = tokens

\* C12: _chunk_text called with overlap >= chunkSize fails with a
\* configuration error for every text, when overlap = chunkSize and when
\* overlap > chunkSize; it never returns a list of chunks, empty or not.
C12_InvalidConfigFails ==
    (c_pc # "input" /\ overlap >= chunk_size) => c_pc = "raised"

-----------------------------------------------------------------------------
(* C17..C19: the order of the events of a data-mode stream                  *)

\* the payloads of the source-document events of q, in order
SourceTexts(q) == [i \in 1..Len(SelectType(q, {"source-document"})) |->
                     SelectType(q, {"source-document"})[i].text]

TextTypes == {"text-start", "text-delta", "text-end"}

\* C17: in data mode with a non-empty sources list, a run whose provider
\* stream was opened emits exactly one source-document event per source, in
\* the order of the list, and every source-document event comes before every
\* text-start, text-delta and text-end event and before the first provider
\* frame is consumed.
C17_SourcesBeforeText ==
    \A s \in Streams :
        (DataOpened(s) /\ sources[s] # << >>) =>
            LET ev == emitted[s]
                n  == CountType(ev, "source-document")
            IN  /\ SourcesFirst(ev)
                /\ n <= Len(sources[s])
                /\ SourceTexts(ev) = SubSeq(sources[s], 1, n)
                /\ (\/ consumed[s] # << >>
                    \/ SelectType(ev, TextTypes) # << >>
                    \/ pc[s] # "sources") => n = Len(sources[s])
                /\ pc[s] = "sources" => n < Len(sources[s])

\* two sources were sent in the order of the list, then text was relayed and
\* the run finished
C17_Witness ==
    \E s \in Streams :
        /\ DataOpened(s) /\ pc[s] = "done" /\ fault[s] = ""
        /\ sources[s] = <<"s2", "s1">>
        /\ SourceTexts(emitted[s]) = <<"s2", "s1">>
        /\ CountType(emitted[s], "text-delta") >= 1

RECURSIVE LastUsage(_)
\* the usage totals of the last frame of fs that carries some
LastUsage(fs) ==
    IF fs = << >> THEN NoUsage
    ELSE IF Last(fs).usage.some THEN Last(fs).usage
         ELSE LastUsage(SubSeq(fs, 1, Len(fs) - 1))

\* text-start, the text-deltas of the fragments and text-end; nothing when
\* there is no fragment
TextBlock(id, fragments) ==
    IF fragments = << >> THEN << >>
    ELSE TextSoFar(id, fragments) \o <<TextEndEv(id)>>

\* the data-usage event of the usage totals u, when their prompt-token count
\* is defined
UsagePart(u) == IF u.some /\ u.prompt_defined THEN <<UsageEv(u)>> ELSE << >>

\* C18: on the success path (the provider stream is exhausted without a
\* fault) stream_text emits, in this order, text-end if and only if a
\* text-start was emitted, then one data-usage event if and only if usage was
\* captured with a defined prompt-token count, then exactly one finish, then
\* the sentinel; usage captured from any frame is never emitted before
\* text-end, data-usage is emitted at most once and no error event is
\* emitted.
C18_SuccessOrder ==
    \A s \in Streams :
        (DataOpened(s) /\ fault[s] = "") =>
            LET ev    == emitted[s]
                text  == TextBlock(text_id[s], FrameContents(consumed[s]))
                usage == UsagePart(LastUsage(consumed[s]))
            IN  /\ CountType(ev, "error") = 0
                /\ CountType(ev, "data-usage") <= 1
                /\ CountType(ev, "text-end") = 1 =>
                        CountType(ev, "text-start") = 1
                /\ \A i \in 1..Len(ev) :
                        ev[i].type = "data-usage" =>
                            /\ \A j \in i..Len(ev) : ev[j].type \notin TextTypes
                            /\ CountType(ev, "text-start") = CountType(ev, "text-end")
                /\ pc[s] = "usage" => AfterSources(ev) = text
                /\ pc[s] = "finish" => AfterSources(ev) = text \o usage
                /\ pc[s] = "finally" => AfterSources(ev) = text \o usage \o <<FinishEv>>
                /\ pc[s] = "done" =>
                        AfterSources(ev) = text \o usage \o <<FinishEv, DoneEv>>

\* usage arrived on a frame in the middle of the text and was sent after
\* text-end, before finish
C18_Witness ==
    \E s \in Streams :
        /\ DataOpened(s) /\ pc[s] = "done" /\ fault[s] = ""
        /\ Len(consumed[s]) = 3 /\ consumed[s][2].usage = UsageFull
        /\ consumed[s][3].choices # << >>
        /\ LET ev == AfterSources(emitted[s]) IN
             /\ Len(ev) >= 6
             /\ ev[Len(ev) - 3].type = "text-end"
             /\ ev[Len(ev) - 2] = UsageEv(UsageFull)
             /\ ev[Len(ev) - 1] = FinishEv

\* the success path without text and without a usable usage: finish and the
\* sentinel only
C18_WitnessNoText ==
    \E s \in Streams :
        /\ DataOpened(s) /\ pc[s] = "done" /\ fault[s] = ""
        /\ LastUsage(consumed[s]) = UsageNoPrompt
        /\ AfterSources(emitted[s]) = <<FinishEv, DoneEv>>

\* C19: in data mode every non-empty delta received from the provider yields
\* exactly one text-delta event whose payload is that fragment unchanged, an
\* empty or absent delta yields none, and the emitted payloads are the
\* non-empty fragments in arrival order, none merged, split, dropped or
\* reordered.
C19_DeltasVerbatim ==
    \A s \in Streams :
        DataOpened(s) =>
            /\ DeltaTexts(emitted[s]) = Relayed(s)
            /\ \A i \in 1..Len(emitted[s]) :
                    emitted[s][i].type = "text-delta" => emitted[s][i].text # ""
            /\ pc[s] \in {"loop", "end", "usage", "finish"} =>
                    /\ cur[s] = << >>
                    /\ CountType(emitted[s], "text-delta")
                            = Len(FrameContents(consumed[s]))

\* a frame with an empty delta and a choice without content were received
\* among the fragments "a", "b", "a"
C19_Witness ==
    \E s \in Streams :
        /\ DataOpened(s) /\ pc[s] = "done" /\ fault[s] = ""
        /\ consumed[s] = << Frame(<<Choice("a", ""), Choice("b", "")>>, NoUsage),
                            Frame(<<Choice("", "")>>, NoUsage),
                            Frame(<<Choice("", "stop"), Choice("a", "")>>, NoUsage) >>
        /\ DeltaTexts(emitted[s]) = <<"a", "b", "a">>

-----------------------------------------------------------------------------
(* C20: the order of the messages of the output                             *)

RECURSIVE IsSubsequence(_, _)
\* a is b with zero or more of its elements removed
IsSubsequence(a, b) ==
    IF a = << >> THEN TRUE
    ELSE IF b = << >> THEN FALSE
    ELSE IF Head(a) = Head(b) THEN IsSubsequence(Tail(a), Tail(b))
    ELSE IsSubsequence(a, Tail(b))

\* C20: the output of truncate_messages_to_fit is the system message first
\* (if present) followed by the retained non-system messages in their
\* original chronological order: the non-system part of the output is a
\* subsequence of the input conversation, also when the anchor is appended
\* after the greedy walk.
C20_ChronologicalOrder ==
    t_pc # "input" =>
        /\ \A i \in 2..Len(result) : result[i].role # "system"
        /\ IsSubsequence(Conversation(result), Conversation(messages))

-----------------------------------------------------------------------------
(* C13..C16: the citations and the prompt of a chat request                 *)

\* the handler has ranked what the vector store returned
Ranked == h_pc = "respond" /\ retrieval \in {"hits", "empty", "search_failed"}

\* the position of hit h in the list the vector store returned
ArrivalPos(h) == CHOOSE i \in 1..Len(matches) : matches[i] = h

\* the ids of a list of hits or citations
Ids(q) == [i \in 1..Len(q) |-> q[i].id]

\* C13: the citation list rag_sources is ordered by score non-increasing for
\* every arrival order of the same set of hits, and hits of equal score keep
\* their arrival order: the order is that of a stable descending sort of the
\* hits.
C13_StableDescending ==
    Ranked =>
        /\ Len(similar_chunks) = Len(matches)
        /\ \A i \in 1..Len(matches) :
                \E j \in 1..Len(similar_chunks) : similar_chunks[j] = matches[i]
        /\ \A i, j \in 1..Len(similar_chunks) :
                i < j =>
                    \/ similar_chunks[i].score > similar_chunks[j].score
                    \/ /\ similar_chunks[i].score = similar_chunks[j].score
                       /\ ArrivalPos(similar_chunks[i]) < ArrivalPos(similar_chunks[j])
        /\ Len(rag_sources) <= Len(similar_chunks)
        /\ Ids(rag_sources) = SubSeq(Ids(similar_chunks), 1, Len(rag_sources))
        /\ \A i, j \in 1..Len(rag_sources) :
                i < j => rag_sources[i].score >= rag_sources[j].score

\* the hits arrived lowest first, the two of equal score s2 before s1, and
\* the citations are s3, s2, s1
C13_Witness ==
    /\ Ranked
    /\ Ids(matches) = <<"s4", "s2", "s3", "s1">>
    /\ Ids(rag_sources) = <<"s3", "s2", "s1">>
    /\ rag_sources[2].score = rag_sources[3].score

\* the passages of a message content, in order
PassagesOf(content) == SelectSeq(content, LAMBDA p : p.kind = "passage")

\* the passages of all the messages handed to the provider
RECURSIVE InjectedPassages(_)
InjectedPassages(msgs) ==
    IF msgs = << >> THEN << >>
    ELSE PassagesOf(Head(msgs).content) \o InjectedPassages(Tail(msgs))

\* the last n pieces of the system message
SystemTail(msgs, n) ==
    LET c == msgs[1].content IN SubSeq(c, Len(c) - n + 1, Len(c))

\* C14: for any number of retrieved hits at most 3 passages are injected into
\* the prompt and at most 3 citations are produced, both from the same hits:
\* the first min(3, n) hits of the score-sorted list, in the same order, the
\* injected context being their full texts joined by a blank line.
C14_TopThree ==
    Ranked =>
        LET k == Min(3, Len(similar_chunks))
            injected == InjectedPassages(openai_messages)
        IN  /\ Len(rag_sources) = k
            /\ Len(injected) = k
            /\ \A i \in 1..k :
                 /\ rag_sources[i].id = similar_chunks[i].id
                 /\ rag_sources[i].filename = similar_chunks[i].metadata.filename
                 /\ rag_sources[i].chunk_index = similar_chunks[i].metadata.chunk_index
                 /\ rag_sources[i].text.body = similar_chunks[i].metadata.text.body
                 /\ injected[i].body = similar_chunks[i].metadata.text.body
                 /\ injected[i].len = similar_chunks[i].metadata.text.len
            /\ k > 0 =>
                 /\ openai_messages[1].role = "system"
                 /\ Len(openai_messages[1].content) >= 2 * k
                 /\ LET tail == SystemTail(openai_messages, 2 * k - 1) IN
                      \A i \in 1..(2 * k - 1) :
                         IF i % 2 = 1 THEN tail[i] = injected[(i + 1) \div 2]
                         ELSE tail[i] = Lit("\n\n")

\* four hits were retrieved; three are cited and injected, the first of them
\* a passage of 600 characters that is whole in the prompt and cut to 500 in
\* its citation
C14_Witness ==
    /\ Ranked
    /\ Len(similar_chunks) = 4
    /\ Ids(rag_sources) = <<"s3", "s1", "s2">>
    /\ rag_sources[2].text.len = 500
    /\ InjectedPassages(openai_messages)[2].len = 600
    /\ Len(InjectedPassages(openai_messages)) = 3

\* the answer the fallback opens with
NoRelevantInformation == "no relevant information found"

\* C15: when retrieval returns zero hits for a query, the response stream
\* carries no source-document event and the generated answer text opens with
\* an explicit "no relevant information found" fallback.
C15_EmptyRetrievalFallback ==
    \A s \in Streams :
        (h_pc = "streaming" /\ retrieval = "empty" /\ s \in active) =>
            /\ CountType(emitted[s], "source-document") = 0
            /\ DeltaTexts(emitted[s]) # << >> =>
                    DeltaTexts(emitted[s])[1] = NoRelevantInformation
            /\ (pc[s] = "done" /\ fault[s] = "") => DeltaTexts(emitted[s]) # << >>

\* the retrieval of this request failed
RetrievalFailed == retrieval \in {"embed_failed", "search_failed"}

\* C16: a failure of the embedding call or of the vector search during a chat
\* request is caught inside the handler: the request still produces a
\* stream, the stream carries no source-document event, the messages sent to
\* the provider hold no injected retrieval context, and the request is not
\* aborted with an HTTP error.
C16_RetrievalFailureDegrades ==
    RetrievalFailed =>
        /\ h_pc \in {"except", "rank", "respond", "streaming"}
        /\ h_pc # "streaming" => ENABLED HandlerStep
        /\ rag_sources = << >>
        /\ openai_messages = SystemPart(request) \o Converted(request.messages)
        /\ InjectedPassages(openai_messages) = << >>
        /\ h_pc = "streaming" =>
             \E s \in Streams :
                /\ active = {s}
                /\ protocol[s] = "data"
                /\ sources[s] = << >>
                /\ CountType(emitted[s], "source-document") = 0

\* the embedding call raised and the answer was streamed to its end
C16_Witness ==
    \E s \in Streams :
        /\ retrieval = "embed_failed" /\ h_pc = "streaming"
        /\ s \in active /\ pc[s] = "done" /\ fault[s] = ""
        /\ CountType(emitted[s], "text-delta") >= 1
        /\ CountType(emitted[s], "finish") = 1

\* the query of the index raised and the answer was streamed to its end
C16_WitnessSearch ==
    \E s \in Streams :
        /\ retrieval = "search_failed" /\ h_pc = "streaming"
        /\ s \in active /\ pc[s] = "done" /\ fault[s] = ""
        /\ CountType(emitted[s], "text-delta") >= 1

-----------------------------------------------------------------------------
(* C21: the reply-priming cost in the budget arithmetic                     *)

\* 4 plus the content tokens of message m, 85 per image part
MessageCost(m) == CountMessageTokensFrom(<<m>>)

\* the input is an optional leading system message and a conversation
LeadingSystemOnly(msgs) == RoleIdx(msgs, "system") \subseteq {1}

\* C21: in the budget arithmetic of truncate_messages_to_fit the flat 2-token
\* reply-priming cost is counted once per whole truncation, not once per
\* message: the cost charged for the system message, for the anchor and for
\* each message of the greedy walk is 4 plus its content tokens, with a
\* single additional 2 for the truncation as a whole. An input that costs at
\* most available on this count is therefore returned whole.
C21_PrimingOncePerTruncation ==
    t_pc # "input" =>
        /\ \A i \in 1..Len(messages) :
                TokensOf(<<messages[i]>>) = MessageCost(messages[i])
        /\ (LeadingSystemOnly(messages)
                /\ CountMessageTokensFrom(messages) + ReplyPriming <= Available) =>
                    result = messages

-----------------------------------------------------------------------------
(* C22: the start and the length of each chunk                              *)

\* C22: for 0 <= overlap < chunkSize the i-th chunk (from 0) of _chunk_text
\* has start_index = i * (chunkSize - overlap) and token_count =
\* min(chunkSize, N - start_index), so 0 < token_count <= chunkSize for every
\* chunk and only the final chunk may be shorter than chunkSize; for N =
\* 1100, chunkSize = 512, overlap = 50 the start indices are 0, 462, 924.
C22_ChunkGeometry ==
    /\ ChunkStarts(1100, 512, 50) = <<0, 462, 924>>
    /\ (c_pc # "input" /\ ValidChunkConfig) =>
        /\ c_pc = "done"
        /\ \A k \in 1..Len(chunks) :
             /\ chunks[k].start_index = (k - 1) * (chunk_size - overlap)
             /\ chunks[k].token_count =
                    Min(chunk_size, Len(tokens) - chunks[k].start_index)
             /\ 0 < chunks[k].token_count
             /\ chunks[k].token_count <= chunk_size
             /\ k < Len(chunks) => chunks[k].token_count = chunk_size

-----------------------------------------------------------------------------
(* C23: frames are forwarded one at a time                                  *)

\* q without its last element
AllButLast(q) == SubSeq(q, 1, Len(q) - 1)

\* C23: stream_text forwards incrementally: the events of provider frame j
\* are handed to the client before frame j+1 is requested, so at every point
\* at most one consumed frame has events that are not yet emitted, and the
\* first text event is emitted before the provider stream is exhausted.
C23_Incremental ==
    \A s \in Streams :
        DataOpened(s) =>
            LET all    == FrameContents(consumed[s])
                before == FrameContents(AllButLast(consumed[s]))
                sent   == DeltaTexts(emitted[s])
            IN  /\ Len(before) <= Len(sent) /\ Len(sent) <= Len(all)
                /\ SubSeq(sent, 1, Len(before)) = before
                /\ ENABLED NextFrame(s) => sent = all
                /\ sent # << >> => CountType(emitted[s], "text-start") = 1
                /\ (pc[s] \in {"end", "usage", "finish"} /\ all # << >>) =>
                        /\ sent = all
                        /\ CountType(emitted[s], "text-start") = 1

\* the fragments of the first frame are with the client while a fragment of
\* the second frame is pending and the provider stream is not exhausted
C23_Witness ==
    \E s \in Streams :
        /\ DataOpened(s) /\ pc[s] = "choice" /\ fault[s] = ""
        /\ Len(consumed[s]) = 2
        /\ FrameContents(<<consumed[s][1]>>) = <<"a", "b">>
        /\ DeltaTexts(emitted[s]) = <<"a", "b">>
        /\ ChoiceContents(cur[s]) # << >>

-----------------------------------------------------------------------------
(* C24: the client disconnects                                              *)

\* the generator of s was closed by its consumer
Disconnected(s) == pc[s] \in {"closing", "close_error", "closed"}

\* the generator has ended and no longer holds the provider stream
ProviderReleased(s) == pc[s] = "closed"

\* C24: when the client disconnects before the stream is closed (the
\* generator is closed at a pending yield), stream_text consumes no further
\* provider frame and does not treat the abort as a normal completion: no
\* text-end, data-usage or finish is produced after the disconnect, and the
\* provider stream is released.
C24_DisconnectAborts ==
    \A s \in Streams :
        Disconnected(s) =>
            /\ ~ENABLED NextFrame(s) /\ ~ENABLED PlainNextFrame(s)
            /\ ~ENABLED TextEnd(s) /\ ~ENABLED UsageData(s) /\ ~ENABLED Finish(s)
            /\ pc[s] # "closing" => ProviderReleased(s)

-----------------------------------------------------------------------------
(* C25: the budget of the messages handed to the provider                   *)

\* the hit of the vector store with the given id
HitById(id) == CHOOSE m \in Matches : m.id = id

\* the message set the handler assembled for this request: the system
\* prompt, the history and the context of the cited hits
Assembled ==
    LET base  == SystemPart(request) \o Converted(request.messages)
        cited == [i \in 1..Len(rag_sources) |-> HitById(rag_sources[i].id)]
    IN  IF cited = << >> THEN base
        ELSE WithContext(base, ContextAddition(cited))

\* C25: at query time the message set (system, history and injected
\* retrieval context) is trimmed by truncate_messages_to_fit before the
\* generation provider is called: every message list the chat handler passes
\* to stream_text is the output of truncate_messages_to_fit, for the limit of
\* the selected model, of the message set it assembled.
C25_BudgetedBeforeProvider ==
    h_pc = "streaming" =>
        Budgeted(openai_messages)
            = TruncateMessagesToFit(Budgeted(Assembled), ModelLimit, DefaultReserved)


-----------------------------------------------------------------------------
\* C26: truncate_messages_to_fit leaves its input unchanged: after any call
\* the input list has the same length and the same elements in the same
\* order, and no input message's role or content has been modified; a
\* truncated system message is a new object and the original keeps its full
\* content.
C26_InputUnchanged == [][messages' = messages]_vars

\* a call has returned a cut system message while the input still holds the
\* system message in full
C26_Witness ==
    /\ t_pc = "once"
    /\ result # << >>
    /\ result[1].role = "system"
    /\ result[1].content.cut
    /\ SystemMsg(messages) # << >>
    /\ ~SystemMsg(messages)[1].content.cut
    /\ SystemMsg(messages)[1].content.len > result[1].content.len

-----------------------------------------------------------------------------
\* the generator has ended without an exception leaving it
EndedSilently(s) == pc[s] = "done"

\* C27: in plain ("text") mode stream_text emits only the raw non-empty
\* delta strings, with no framing and no source-document, usage, error,
\* finish or sentinel event, and a failure while consuming the provider
\* stream ends the plain stream silently: no error is surfaced to the
\* consumer of the stream.
C27_PlainModeSilent ==
    \A s \in active :
        protocol[s] = "text" =>
            /\ \A i \in 1..Len(emitted[s]) :
                   /\ emitted[s][i].type = "raw"
                   /\ emitted[s][i].text # ""
            /\ (fault[s] # "" /\ consumed[s] # << >>) => EndedSilently(s)

-----------------------------------------------------------------------------
(* C28: requests streamed at the same time                                  *)

RECURSIVE BeforeStop(_)
\* the choices of a frame that plain mode reads before its break
BeforeStop(cs) ==
    IF cs = << >> \/ Head(cs).finish_reason = "stop" THEN << >>
    ELSE <<Head(cs)>> \o BeforeStop(Tail(cs))

RECURSIVE PlainContents(_)
\* the fragments plain mode yields for a list of frames read to their end
PlainContents(fs) ==
    IF fs = << >> THEN << >>
    ELSE ChoiceContents(BeforeStop(Head(fs).choices)) \o PlainContents(Tail(fs))

\* what a plain-mode run of its own has yielded at the position of s
AlonePlain(s) ==
    LET n == Len(consumed[s])
    IN  IF n = 0 THEN << >>
        ELSE LET last  == consumed[s][n].choices
                 read  == SubSeq(last, 1, Len(last) - Len(cur[s]))
                 texts == PlainContents(SubSeq(consumed[s], 1, n - 1))
                              \o ChoiceContents(BeforeStop(read))
             IN  [i \in 1..Len(texts) |-> RawEv(texts[i])]

\* text_started of a run of its own at the position of s
AloneStarted(s) == Relayed(s) # << >> \/ pc[s] = "delta"

\* what a data-mode run of its own has emitted at the position of s, after
\* the source-document events
AloneData(s) ==
    LET id     == text_id[s]
        text   == IF Relayed(s) # << >> THEN TextSoFar(id, Relayed(s))
                  ELSE IF pc[s] = "delta" THEN <<TextStartEv(id)>> ELSE << >>
        ending == IF fault[s] # ""
                  THEN IF pc[s] \in {"finally", "done"}
                       THEN <<ErrorEv(fault[s])>> ELSE << >>
                  ELSE (IF AloneStarted(s) /\ pc[s] \in {"usage", "finish", "finally", "done"}
                        THEN <<TextEndEv(id)>> ELSE << >>)
                       \o (IF pc[s] \in {"finish", "finally", "done"}
                           THEN UsagePart(LastUsage(consumed[s])) ELSE << >>)
                       \o (IF pc[s] \in {"finally", "done"} THEN <<FinishEv>> ELSE << >>)
    IN  text \o ending \o (IF pc[s] = "done" THEN <<DoneEv>> ELSE << >>)

\* the events of q with the random ids of the source-document events left out
WithoutSourceIds(q) ==
    [i \in 1..Len(q) |-> IF q[i].type = "source-document"
                         THEN SourceDocument(0, q[i].text) ELSE q[i]]

\* the sequence a run of its own has emitted at the position of s
Alone(s) ==
    IF protocol[s] = "text" THEN AlonePlain(s)
    ELSE [i \in 1..(src_i[s] - 1) |-> SourceDocument(0, sources[s][i])] \o AloneData(s)

\* C28: two chat requests streamed concurrently share no mutable state: under
\* every interleaving of their provider frames each stream's emitted sequence
\* is the one it would emit when run alone (its own text id, its own
\* text-started flag, its own captured usage), and the ids of the two text
\* blocks differ.
C28_StreamsIndependent ==
    /\ \A s \in active :
           /\ WithoutSourceIds(emitted[s]) = Alone(s)
           /\ protocol[s] = "data" =>
                  /\ text_started[s] = AloneStarted(s)
                  /\ usage_data[s] = LastUsage(consumed[s])
    /\ \A s, t \in active :
           (s # t /\ DataOpened(s) /\ DataOpened(t)) => text_id[s] # text_id[t]

\* both requests have run to their end with a text block each, the second
\* opened before the first, and only the first has captured usage
C28_Witness ==
    /\ active = {"r1", "r2"}
    /\ \A s \in active :
           /\ protocol[s] = "data"
           /\ pc[s] = "done"
           /\ fault[s] = ""
           /\ CountType(emitted[s], "text-delta") > 0
    /\ CountType(emitted["r1"], "data-usage") = 1
    /\ CountType(emitted["r2"], "data-usage") = 0
    /\ text_id["r2"] < text_id["r1"]

-----------------------------------------------------------------------------
(* C29: the greedy walk                                                     *)

\* the messages of msgs whose role is not system, in order
History(msgs) == SelectSeq(msgs, LAMBDA m : m.role # "system")

RECURSIVE SumCost(_, _)
\* the costs of the messages of conv at the positions of R, added up
SumCost(conv, R) ==
    IF R = {} THEN 0
    ELSE LET i == CHOOSE j \in R : TRUE
         IN  CostOf(<<conv[i]>>) + SumCost(conv, R \ {i})

RECURSIVE PickFrom(_, _, _)
\* the messages of conv at the positions of R from position i on, in order
PickFrom(conv, R, i) ==
    IF i > Len(conv) THEN << >>
    ELSE (IF i \in R THEN <<conv[i]>> ELSE << >>) \o PickFrom(conv, R, i + 1)

\* the budget of the walk: available minus the cost of the system message
WalkBudget ==
    Available - (IF RoleIdx(messages, "system") = {} THEN 0
                 ELSE CostOf(<<MostRecent(messages, "system")>>))

\* R retains a position exactly when the cost of its message is at most the
\* budget left by the retained positions after it
RetainedByRule(conv, R) ==
    \A i \in 1..Len(conv) :
        i \in R <=> CostOf(<<conv[i]>>) <= WalkBudget - SumCost(conv, {j \in R : j > i})

\* kept, with the most recent user message of conv put last when no message
\* of kept equals it
AnchorAdded(conv, kept) ==
    IF AnchorOf(conv) # << >> /\ \A i \in 1..Len(kept) : kept[i] # AnchorOf(conv)[1]
    THEN kept \o AnchorOf(conv)
    ELSE kept

\* C29: in the greedy branch of truncate_messages_to_fit the walk from most
\* recent to oldest does not stop at the first message that does not fit: a
\* non-system message is retained by the walk exactly when its cost is at
\* most the budget remaining after all more-recent retained messages, so an
\* older message can be retained while a newer one between it and the end of
\* history is dropped. (The output is what the walk retained, followed by the
\* most recent user message when the walk retained no message equal to it.)
C29_WalkSkipsMisses ==
    (t_pc # "input" /\ ~SystemTooLarge) =>
        \E R \in SUBSET (1..Len(History(messages))) :
            /\ RetainedByRule(History(messages), R)
            /\ History(result)
                   = AnchorAdded(History(messages), PickFrom(History(messages), R, 1))

\* the walk has dropped a message and retained an older one
C29_Witness ==
    /\ t_pc = "once" /\ ~SystemTooLarge
    /\ \E R \in SUBSET (1..Len(History(messages))) :
           /\ RetainedByRule(History(messages), R)
           /\ History(result) = PickFrom(History(messages), R, 1)
           /\ \E i \in R : \E j \in 1..Len(History(messages)) : i < j /\ j \notin R

-----------------------------------------------------------------------------
\* C30: truncate_messages_to_fit treats every message with role system as the
\* system message wherever it occurs: when the input holds several system
\* messages only the last one survives (whole in the greedy branch, cut or
\* dropped in the branch of a system message that is too large), it is placed
\* first in the output, and all other system messages are absent from the
\* output even when the budget would hold them; the output therefore never
\* contains more than one system message.
C30_LastSystemOnly ==
    t_pc # "input" =>
        /\ RoleIdx(result, "system") \subseteq {1}
        /\ RoleIdx(messages, "system") = {} => RoleIdx(result, "system") = {}
        /\ RoleIdx(messages, "system") # {} =>
               LET last == MostRecent(messages, "system")
               IN  IF SystemTooLarge
                   THEN SystemOut(result) \in
                            { << >>,
                              <<Msg("system",
                                    DecodePrefix(last.content,
                                                 Available - CostOf(AnchorOf(messages))
                                                     - SystemSlack))>> }
                   ELSE SystemOut(result) = <<last>>

\* the input holds two different system messages and fits the budget whole;
\* the output holds the later one, first, and every non-system message
C30_Witness ==
    /\ t_pc = "once"
    /\ Cardinality(RoleIdx(messages, "system")) = 2
    /\ \E i, j \in RoleIdx(messages, "system") : messages[i] # messages[j]
    /\ CountMessageTokens(messages) <= Available
    /\ ~SystemTooLarge
    /\ RoleIdx(result, "system") = {1}
    /\ result[1] = MostRecent(messages, "system")
    /\ History(result) = History(messages)
    /\ History(messages) # << >>
=============================================================================
